---- MODULE Spec2Model ----
(***************************************************************************)
(* Job-Sphere hiring workflow: the candidate pipeline state machine of     *)
(* services/workflow_service.py together with the other writers of the    *)
(* candidate_pipeline collection (services/interview_service.py and       *)
(* services/offer_service.py), over the document store of                 *)
(* database/repository.py.                                                *)
(*                                                                         *)
(* Time is measured in minutes since Monday 00:00 of the first week.      *)
(* A collection is the sequence of its documents in insertion order;      *)
(* find_one and update_one act on the first document matching the query.  *)
(* History entries carry stage and notes; their timestamp is left out.    *)
(***************************************************************************)
EXTENDS Integers, Sequences, FiniteSets, TLC

VARIABLES applications, candidate_pipeline, schedule_events, interviews,
          job_offers, test_submissions, tests, notifications, now, ops, lastOp,
          fault,
          \* advance_candidate_stage calls in progress, step by step
          calls, writes,
          \* the signaling relay of services/video_service.py
          hr_sockets, user_sockets, pending_offers, pending_answers,
          pending_ice, pending_ice_hr, sockets, received, relayLog

raceVars == <<calls, writes>>

relayVars == <<hr_sockets, user_sockets, pending_offers, pending_answers,
               pending_ice, pending_ice_hr, sockets, received, relayLog>>

workflowVars == <<applications, candidate_pipeline, schedule_events, interviews,
                  job_offers, test_submissions, tests, notifications, now, ops,
                  lastOp, fault>>

vars == <<applications, candidate_pipeline, schedule_events, interviews,
          job_offers, test_submissions, tests, notifications, now, ops, lastOp,
          fault, raceVars, relayVars>>

(* ---------------- bounds of the model ---------------- *)

\* number of operations in a run that change the store or the clock
MaxOps == 3
\* last day (index since the first Monday) the clock may reach
MaxDay == 5

\* ids of the applications in the store
AppIds == {"a1"}
\* application ids the callers may pass: "a0" is the id of no application
InputIds == AppIds \cup {"a0"}
\* HR accounts; every job of the model belongs to JobHr
HrIds == {"hr1"}
JobHr == "hr1"

MinutesPerDay == 1440
\* the clock at start: Friday 10:00
StartTime == 4 * MinutesPerDay + 600
\* times an HR may pick when scheduling an interview by hand: Friday 09:00
ScheduleTimes == {4 * MinutesPerDay + 540}

None == -1

\* an application id that is no ObjectId: ObjectId(...) raises InvalidId on it
MalformedId == "zz"
IsObjectId(a) == a # MalformedId

\* The store call of a workflow operation that raises (a driver error), when
\* fault is not "none": the first lookup, the pipeline write, the write of
\* the application status, or the first store call of the scheduling helper.
\* With "unapplied" no call raises: the store is unavailable from the pipeline
\* write of advance_candidate_stage on, so that update_one reports False and
\* find_one reports None.
FaultPoints == {"none", "find", "write", "status", "schedule", "unapplied"}

(* ---------------- WorkflowStage and the transition table ---------------- *)

WorkflowStage ==
    {"Applied", "Screening", "Test", "Interview", "Offer", "Hired", "Rejected"}

\* new_stage strings a caller may send; "Bogus" is not a WorkflowStage
StageInputs == WorkflowStage \cup {"Bogus"}

stage_transitions_noguard(s) == StageInputs

stage_transitions(s) ==
    CASE s = "Applied"   -> {"Screening", "Rejected"}
      [] s = "Screening" -> {"Test", "Interview", "Rejected"}
      [] s = "Test"      -> {"Interview", "Rejected"}
      [] s = "Interview" -> {"Offer", "Rejected"}
      [] s = "Offer"     -> {"Hired", "Rejected"}
      [] s = "Hired"     -> {}
      [] s = "Rejected"  -> {}
      [] OTHER           -> {}

_get_next_action(stage) ==
    CASE stage = "Applied"   -> <<"Initial screening", MinutesPerDay>>
      [] stage = "Screening" -> <<"Schedule assessment test", 2 * MinutesPerDay>>
      [] stage = "Test"      -> <<"Schedule interview", 3 * MinutesPerDay>>
      [] stage = "Interview" -> <<"Prepare job offer", 2 * MinutesPerDay>>
      [] stage = "Offer"     -> <<"Await candidate response", 7 * MinutesPerDay>>
      [] stage = "Hired"     -> <<"Onboarding preparation", MinutesPerDay>>
      [] stage = "Rejected"  -> <<"Send rejection notification", MinutesPerDay>>
      [] OTHER               -> <<"", 0>>

(* ---------------- the document store ---------------- *)

\* index of the first document of coll for application a, 0 when none
find_one(coll, a) ==
    IF \E i \in 1..Len(coll) : coll[i].application_id = a
    THEN CHOOSE i \in 1..Len(coll) :
            /\ coll[i].application_id = a
            /\ \A j \in 1..(i - 1) : coll[j].application_id # a
    ELSE 0

\* the state of the store as one record, threaded through the handlers
Db == [applications       |-> applications,
       candidate_pipeline |-> candidate_pipeline,
       schedule_events    |-> schedule_events,
       interviews         |-> interviews,
       job_offers         |-> job_offers,
       test_submissions   |-> test_submissions,
       notifications      |-> notifications]

Exists(db, a) == a \in DOMAIN db.applications

\* update_one("applications", {"_id": a}, {"status": s}): no match, no change
SetStatus(db, a, s) ==
    IF Exists(db, a)
    THEN [db EXCEPT !.applications = [@ EXCEPT ![a].status = s]]
    ELSE db

ScheduleEvent(type, a, at, who) ==
    [event_type |-> type, application_id |-> a,
     scheduled_datetime |-> at, participants |-> who]

Notify(db, kind, a, ok) ==
    [db EXCEPT !.notifications = Append(@, [kind |-> kind, application_id |-> a, ok |-> ok])]

(* ---------------- interview service ---------------- *)

\* InterviewService._update_candidate_pipeline: append to the history of the
\* first pipeline of the application, or create a pipeline when none is found
interview_update_candidate_pipeline(db, a, stage) ==
    LET i == find_one(db.candidate_pipeline, a) IN
    IF i # 0
    THEN [db EXCEPT !.candidate_pipeline[i] =
            [@ EXCEPT !.current_stage = stage,
                      !.stage_history = Append(@, [stage |-> stage,
                                                   notes |-> <<"Automated update", stage>>])]]
    ELSE [db EXCEPT !.candidate_pipeline =
            Append(@, [application_id |-> a,
                       current_stage  |-> stage,
                       stage_history  |-> <<[stage |-> stage,
                                             notes |-> <<"Initial stage", stage>>]>>,
                       next_action    |-> ""])]

\* InterviewService.schedule_interview
schedule_interview(db, a, hr_id, scheduled_datetime) ==
    LET d1 == [db EXCEPT !.interviews =
                  Append(@, [application_id     |-> a,
                             hr_id              |-> hr_id,
                             scheduled_datetime |-> scheduled_datetime,
                             status             |-> "Scheduled"])]
        d2 == SetStatus(d1, a, "Interview Scheduled")
    IN interview_update_candidate_pipeline(d2, a, "Interview Scheduled")

check_interview_conflicts_forward(ivs, hr_id, scheduled_datetime, duration_minutes) ==
    \E i \in 1..Len(ivs) :
        /\ ivs[i].hr_id = hr_id
        /\ ivs[i].status \in {"Scheduled", "In Progress"}
        /\ ivs[i].scheduled_datetime < scheduled_datetime + duration_minutes
        /\ ivs[i].scheduled_datetime >= scheduled_datetime

\* InterviewService.check_interview_conflicts
check_interview_conflicts(ivs, hr_id, scheduled_datetime, duration_minutes) ==
    LET start_time == scheduled_datetime
        end_time   == scheduled_datetime + duration_minutes
    IN \E i \in 1..Len(ivs) :
          /\ ivs[i].hr_id = hr_id
          /\ ivs[i].status \in {"Scheduled", "In Progress"}
          /\ ivs[i].scheduled_datetime < end_time
          /\ ivs[i].scheduled_datetime >= start_time - duration_minutes

\* InterviewService._update_application_from_feedback for interview number iv
_update_application_from_feedback(db, iv, recommendation) ==
    IF iv \notin 1..Len(db.interviews) THEN db
    ELSE LET a == db.interviews[iv].application_id
             new_status == CASE recommendation = "Hire"   -> "Interview Passed"
                             [] recommendation = "Reject" -> "Interview Failed"
                             [] OTHER                     -> "Under Review"
             pipeline_stage == IF recommendation = "Hire"
                               THEN "Interview Passed" ELSE "Interview Failed"
         IN interview_update_candidate_pipeline(SetStatus(db, a, new_status),
                                                a, pipeline_stage)

(* ---------------- offer service ---------------- *)

\* OfferService._update_candidate_pipeline: sets current_stage only
offer_update_candidate_pipeline(db, a, stage) ==
    LET i == find_one(db.candidate_pipeline, a) IN
    IF i # 0
    THEN [db EXCEPT !.candidate_pipeline[i].current_stage = stage]
    ELSE db

\* OfferService.respond_to_offer for offer number o (which exists)
respond_to_offer(db, o, response) ==
    LET a  == db.job_offers[o].application_id
        d1 == [db EXCEPT !.job_offers[o].status = response]
        d2 == SetStatus(d1, a, IF response = "Accepted"
                               THEN "Offer Accepted" ELSE "Offer Rejected")
    IN offer_update_candidate_pipeline(d2, a, IF response = "Accepted"
                                              THEN "Hired" ELSE "Offer Rejected")

(* ---------------- workflow service: scheduling ---------------- *)

Weekday(t) == (t \div MinutesPerDay) % 7

preferred_days == 3

RECURSIVE ScanSlots_weekends(_, _, _, _, _)
ScanSlots_weekends(ivs, hr_id, t, day_offset, hour) ==
    IF day_offset >= preferred_days THEN None
    ELSE IF hour >= 17
         THEN ScanSlots_weekends(ivs, hr_id, t, day_offset + 1, 9)
    ELSE LET slot_time == ((t \div MinutesPerDay) + day_offset) * MinutesPerDay
                          + hour * 60
         IN IF ~check_interview_conflicts(ivs, hr_id, slot_time, 60)
            THEN slot_time
            ELSE ScanSlots_weekends(ivs, hr_id, t, day_offset, hour + 1)

RECURSIVE ScanSlots(_, _, _, _, _)
ScanSlots(ivs, hr_id, t, day_offset, hour) ==
    IF day_offset >= preferred_days THEN None
    ELSE IF Weekday(t + day_offset * MinutesPerDay) >= 5
         THEN ScanSlots(ivs, hr_id, t, day_offset + 1, 9)
    ELSE IF hour >= 17
         THEN ScanSlots(ivs, hr_id, t, day_offset + 1, 9)
    ELSE LET slot_time == ((t \div MinutesPerDay) + day_offset) * MinutesPerDay
                          + hour * 60
         IN IF ~check_interview_conflicts(ivs, hr_id, slot_time, 60)
            THEN slot_time
            ELSE ScanSlots(ivs, hr_id, t, day_offset, hour + 1)

_find_next_available_slot(ivs, hr_id, t) == ScanSlots(ivs, hr_id, t, 0, 9)

_schedule_screening_48h(db, a, t) ==
    IF fault = "schedule" \/ ~IsObjectId(a) THEN db
    ELSE IF ~Exists(db, a) THEN db
    ELSE [db EXCEPT !.schedule_events =
            Append(@, ScheduleEvent("Screening", a, t + 48 * 60,
                                    <<db.applications[a].hr_id>>))]

\* each scheduling helper catches what its store calls raise and returns
_schedule_screening(db, a, t) ==
    IF fault = "schedule" \/ ~IsObjectId(a) THEN db
    ELSE IF ~Exists(db, a) THEN db
    ELSE [db EXCEPT !.schedule_events =
            Append(@, ScheduleEvent("Screening", a, t + 24 * 60,
                                    <<db.applications[a].hr_id>>))]

_schedule_test_no_event(db, a, t, test_status, ok) ==
    IF fault = "schedule" \/ ~IsObjectId(a) THEN db
    ELSE IF ~Exists(db, a) THEN db
    ELSE IF test_status # "Active" THEN db
    ELSE Notify([db EXCEPT !.test_submissions = Append(@, a)],
                "test_invitation", a, ok)

\* test_status is the status of the job's test; ok is the outcome of the
\* invitation e-mail
_schedule_test(db, a, t, test_status, ok) ==
    IF fault = "schedule" \/ ~IsObjectId(a) THEN db
    ELSE IF ~Exists(db, a) THEN db
    ELSE IF test_status # "Active" THEN db
    ELSE LET d1 == [db EXCEPT !.test_submissions = Append(@, a)]
             d2 == [d1 EXCEPT !.schedule_events =
                      Append(@, ScheduleEvent("Test", a, t + 2 * MinutesPerDay,
                                  <<d1.applications[a].user_id,
                                    d1.applications[a].hr_id>>))]
         IN Notify(d2, "test_invitation", a, ok)

_schedule_interview_fallback(db, a, t, ok) ==
    IF fault = "schedule" \/ ~IsObjectId(a) THEN db
    ELSE IF ~Exists(db, a) THEN db
    ELSE LET hr_id == db.applications[a].hr_id
             interview_time == _find_next_available_slot(db.interviews, hr_id, t)
         IN Notify(schedule_interview(db, a, hr_id,
                                      IF interview_time = None
                                      THEN t + MinutesPerDay ELSE interview_time),
                   "interview_invitation", a, ok)

_schedule_interview(db, a, t, ok) ==
    IF fault = "schedule" \/ ~IsObjectId(a) THEN db
    ELSE IF ~Exists(db, a) THEN db
    ELSE LET hr_id == db.applications[a].hr_id
             interview_time == _find_next_available_slot(db.interviews, hr_id, t)
         IN IF interview_time = None THEN db
            ELSE Notify(schedule_interview(db, a, hr_id, interview_time),
                        "interview_invitation", a, ok)

_prepare_offer(db, a, t) ==
    IF fault = "schedule" \/ ~IsObjectId(a) THEN db
    ELSE IF ~Exists(db, a) THEN db
    ELSE LET d1 == [db EXCEPT !.job_offers =
                      Append(@, [application_id |-> a, status |-> "Draft"])]
         IN [d1 EXCEPT !.schedule_events =
               Append(@, ScheduleEvent("Offer", a, t + 48 * 60,
                                       <<d1.applications[a].hr_id>>))]

_schedule_next_steps(db, a, stage, t, test_status, ok) ==
    CASE stage = "Screening" -> _schedule_screening(db, a, t)
      [] stage = "Test"      -> _schedule_test(db, a, t, test_status, ok)
      [] stage = "Interview" -> _schedule_interview(db, a, t, ok)
      [] stage = "Offer"     -> _prepare_offer(db, a, t)
      [] OTHER               -> db

\* WorkflowService._send_stage_notification: the module never imports
\* email_service, so the send raises NameError inside the handler's own
\* try/except and no e-mail goes out
_send_stage_notification(db, a, stage) == db

(* ---------------- workflow service: the public operations ---------------- *)

UserOf(a) == IF a = "a1" THEN "u1" ELSE "u0"

\* A public operation yields <<store, returned, raised>>: raised tells that an
\* exception left the operation instead of a return value.
Returned(db, value) == <<db, value, FALSE>>
Raised(db) == <<db, FALSE, TRUE>>

except_Exception_reraise(r) == r

\* "except Exception as e: ...; return False" around the whole body
except_Exception(r) == IF r[3] THEN Returned(r[1], FALSE) ELSE r

initiate_hiring_workflow_insert_first(db, a, t, ok) ==
    LET d1 == [db EXCEPT !.candidate_pipeline =
                 Append(@, [application_id |-> a,
                            current_stage  |-> "Applied",
                            stage_history  |-> <<[stage |-> "Applied",
                                                  notes |-> <<"Application received">>]>>,
                            next_action    |-> "Initial screening"])]
    IN IF ~Exists(db, a) THEN Returned(d1, FALSE)
       ELSE Returned(Notify(_schedule_screening(d1, a, t),
                            "application_confirmation", a, ok), TRUE)

initiate_hiring_workflow_rollback(db, a, t, ok) ==
    IF ~Exists(db, a) THEN Returned(db, FALSE)
    ELSE LET pipeline == [application_id |-> a,
                          current_stage  |-> "Applied",
                          stage_history  |-> <<[stage |-> "Applied",
                                                notes |-> <<"Application received">>]>>,
                          next_action    |-> "Initial screening"]
             d1 == [db EXCEPT !.candidate_pipeline = Append(@, pipeline)]
             d2 == _schedule_screening(d1, a, t)
             d3 == Notify(d2, "application_confirmation", a, ok)
         IN IF ok THEN Returned(d3, TRUE)
            ELSE Returned(Notify(db, "application_confirmation", a, ok), FALSE)

\* the body of initiate_hiring_workflow inside its try
initiate_hiring_workflow_body(db, a, t, ok) ==
    IF ~IsObjectId(a) \/ fault = "find" THEN Raised(db)
    ELSE IF ~Exists(db, a) THEN Returned(db, FALSE)
    ELSE IF fault = "write" THEN Raised(db)
    ELSE LET pipeline == [application_id |-> a,
                          current_stage  |-> "Applied",
                          stage_history  |-> <<[stage |-> "Applied",
                                                notes |-> <<"Application received">>]>>,
                          next_action    |-> "Initial screening"]
             d1 == [db EXCEPT !.candidate_pipeline = Append(@, pipeline)]
             d2 == _schedule_screening(d1, a, t)
             d3 == Notify(d2, "application_confirmation", a, ok)
         IN Returned(d3, TRUE)

\* WorkflowService.initiate_hiring_workflow
initiate_hiring_workflow(db, a, t, ok) ==
    except_Exception(initiate_hiring_workflow_body(db, a, t, ok))

\* the body of advance_candidate_stage inside its try
advance_candidate_stage_body(db, a, new_stage, notes, auto_schedule, t, test_status, ok) ==
    LET i == find_one(db.candidate_pipeline, a) IN
    IF fault = "find" THEN Raised(db)
    ELSE IF i = 0 THEN Returned(db, FALSE)
    ELSE LET current_stage == db.candidate_pipeline[i].current_stage IN
         \* WorkflowStage(...) raises ValueError on a string that is no stage
         IF current_stage \notin WorkflowStage \/ new_stage \notin WorkflowStage
         THEN Raised(db)
         ELSE IF new_stage \notin stage_transitions(current_stage)
         THEN Returned(db, FALSE)
         ELSE IF fault = "write" THEN Raised(db)
         \* both update_one calls return False, which nobody looks at; the
         \* scheduling helper and the notification find no application
         ELSE IF fault = "unapplied"
         THEN (IF ~IsObjectId(a) THEN Raised(db) ELSE Returned(db, TRUE))
         ELSE LET entry == [stage |-> new_stage,
                            notes |-> IF notes # <<>> THEN notes
                                      ELSE <<"Advanced from", current_stage,
                                             "to", new_stage>>]
                  d1 == [db EXCEPT !.candidate_pipeline[i] =
                            [@ EXCEPT !.current_stage = new_stage,
                                      !.stage_history = Append(@, entry),
                                      !.next_action   = _get_next_action(new_stage)[1]]]
                  d2 == SetStatus(d1, a, new_stage)
                  d3 == IF auto_schedule
                        THEN _schedule_next_steps(d2, a, new_stage, t, test_status, ok)
                        ELSE d2
                  d4 == _send_stage_notification(d3, a, new_stage)
              IN \* ObjectId(application_id) or the status update raises
                 IF ~IsObjectId(a) \/ fault = "status" THEN Raised(d1)
                 ELSE Returned(d4, TRUE)

\* WorkflowService.advance_candidate_stage
advance_candidate_stage(db, a, new_stage, notes, auto_schedule, t, test_status, ok) ==
    except_Exception(advance_candidate_stage_body(db, a, new_stage, notes,
                                                  auto_schedule, t, test_status, ok))

(* ---------------- the state machine ---------------- *)

\* the request threads that may run advance_candidate_stage at the same time
Callers == {"c1", "c2"}

IdleCall == [pc |-> "idle", application_id |-> "", new_stage |-> "",
             auto_schedule |-> FALSE, index |-> 0, current_stage |-> "",
             stage_history |-> <<>>, interview_time |-> None, result |-> FALSE]

\* no advance_candidate_stage call is in progress
RaceIdle ==
    /\ calls = [c \in Callers |-> IdleCall]
    /\ writes = <<>>

\* sockets of the relay: the first and the second connection of the HR page
\* and of the candidate page
SocketIds == {"hr", "user"} \X {1, 2}

\* a dict without keys
EmptyMap == [x \in {} |-> 0]

\* VideoService.__init__: no socket registered, nothing buffered
RelayIdle ==
    /\ hr_sockets = EmptyMap
    /\ user_sockets = EmptyMap
    /\ pending_offers = EmptyMap
    /\ pending_answers = EmptyMap
    /\ pending_ice = EmptyMap
    /\ pending_ice_hr = EmptyMap
    /\ sockets = [ws \in SocketIds |-> "unused"]
    /\ received = [ws \in SocketIds |-> <<>>]
    /\ relayLog = [n |-> 0, offers_sent |-> 0,
                   user_before_offer |-> FALSE,
                   ice_sent |-> <<>>, ice_sent_hr |-> <<>>]

Op(name, a, arg, result) ==
    [op |-> name, application_id |-> a, arg |-> arg, result |-> result,
     raised |-> FALSE, changed |-> TRUE]

\* The applications collection is written by ApplicationRepository.create
\* alone, outside the workflow; the store starts with the applications of
\* AppIds in it, each in the status a new Application has, and nothing else.
Init ==
    /\ applications = [a \in AppIds |-> [status |-> "Pending", hr_id |-> JobHr,
                                         user_id |-> UserOf(a)]]
    /\ candidate_pipeline = <<>>
    /\ schedule_events = <<>>
    /\ interviews = <<>>
    /\ job_offers = <<>>
    /\ test_submissions = <<>>
    /\ tests = "None"
    /\ notifications = <<>>
    /\ now = StartTime
    /\ ops = 0
    /\ lastOp = Op("init", "", "", TRUE)
    /\ fault = "none"
    /\ RaceIdle
    /\ RelayIdle

\* A call that left the store as it was is not continued: every continuation
\* of it is a continuation of the state before the call.
Continues == lastOp.changed

\* the store becomes db; a call that changed it counts as one operation
Commit(db, op) ==
    /\ db # Db => ops < MaxOps
    /\ applications' = db.applications
    /\ candidate_pipeline' = db.candidate_pipeline
    /\ schedule_events' = db.schedule_events
    /\ interviews' = db.interviews
    /\ job_offers' = db.job_offers
    /\ test_submissions' = db.test_submissions
    /\ notifications' = db.notifications
    /\ ops' = IF db = Db THEN ops ELSE ops + 1
    /\ lastOp' = [op EXCEPT !.changed = (db # Db)]
    /\ UNCHANGED <<tests, now, fault, raceVars, relayVars>>

\* POST /workflow/initiate/<application_id>
InitiateWorkflow(a) ==
    /\ Continues
    /\ \E ok \in BOOLEAN :
         LET r == initiate_hiring_workflow(Db, a, now, ok)
         IN Commit(r[1], [Op("initiate", a, "", r[2]) EXCEPT !.raised = r[3]])

\* the notes a caller may pass: none, or some text
NotesInputs == {<<>>, <<"note">>}

\* POST /workflow/advance-stage/<application_id>
AdvanceStage(a, new_stage, notes, auto_schedule) ==
    /\ Continues
    /\ \E ok \in BOOLEAN :
         LET r == advance_candidate_stage(Db, a, new_stage, notes, auto_schedule,
                                          now, tests, ok)
         IN Commit(r[1], [Op("advance", a, new_stage, r[2]) EXCEPT !.raised = r[3]])

\* POST /interviews
ScheduleInterview(a, hr_id, at) ==
    /\ Continues
    /\ Commit(schedule_interview(Db, a, hr_id, at),
              Op("schedule_interview", a, "", TRUE))

\* POST /interviews/<interview_id>/feedback
SubmitInterviewFeedback(iv, recommendation) ==
    /\ Continues
    /\ iv \in 1..Len(interviews)
    /\ Commit(_update_application_from_feedback(Db, iv, recommendation),
              Op("feedback", interviews[iv].application_id, recommendation, TRUE))

\* POST /offers
CreateOffer(a) ==
    /\ Continues
    /\ a \in DOMAIN applications
    /\ Commit([Db EXCEPT !.job_offers = Append(@, [application_id |-> a,
                                                   status |-> "Draft"])],
              Op("create_offer", a, "", TRUE))

\* POST /offers/<offer_id>/respond
RespondToOffer(o, response) ==
    /\ Continues
    /\ o \in 1..Len(job_offers)
    /\ Commit(respond_to_offer(Db, o, response),
              Op("respond", job_offers[o].application_id, response, TRUE))

\* TestService.create_test, then generate_questions_for_test activates it
CreateTest ==
    /\ Continues
    /\ tests = "None"
    /\ tests' = "Draft"
    /\ lastOp' = Op("create_test", "", "", TRUE)
    /\ UNCHANGED <<applications, candidate_pipeline, schedule_events, interviews,
                   job_offers, test_submissions, notifications, now, ops, fault,
                   raceVars, relayVars>>

GenerateQuestionsForTest ==
    /\ Continues
    /\ tests = "Draft"
    /\ tests' = "Active"
    /\ lastOp' = Op("generate_questions", "", "", TRUE)
    /\ UNCHANGED <<applications, candidate_pipeline, schedule_events, interviews,
                   job_offers, test_submissions, notifications, now, ops, fault,
                   raceVars, relayVars>>

\* a day passes
Tick ==
    /\ Continues
    /\ ops < MaxOps
    /\ (now \div MinutesPerDay) < MaxDay
    /\ now' = now + MinutesPerDay
    /\ ops' = ops + 1
    /\ lastOp' = Op("tick", "", "", TRUE)
    /\ UNCHANGED <<applications, candidate_pipeline, schedule_events, interviews,
                   job_offers, test_submissions, tests, notifications, fault,
                   raceVars, relayVars>>

Next ==
    \/ \E a \in InputIds : InitiateWorkflow(a)
    \/ \E a \in InputIds, s \in StageInputs, n \in NotesInputs, auto \in BOOLEAN :
          AdvanceStage(a, s, n, auto)
    \/ \E a \in InputIds, h \in HrIds, at \in ScheduleTimes : ScheduleInterview(a, h, at)
    \/ \E iv \in 1..MaxOps, r \in {"Hire", "Reject", "Consider"} :
          SubmitInterviewFeedback(iv, r)
    \/ \E a \in AppIds : CreateOffer(a)
    \/ \E o \in 1..MaxOps, r \in {"Accepted", "Rejected"} : RespondToOffer(o, r)
    \/ CreateTest
    \/ GenerateQuestionsForTest
    \/ Tick

Spec == Init /\ [][Next]_vars

(* ---------------- the operations under failing collaborators ---------------- *)

\* ids a caller may pass, with one that is no ObjectId
FaultInputIds == InputIds \cup {MalformedId}

\* the store starts or stops failing at point f
InjectFault(f) ==
    /\ Continues
    /\ ops < MaxOps
    /\ f # fault
    /\ fault' = f
    /\ ops' = ops + 1
    /\ lastOp' = Op("fault", "", f, TRUE)
    /\ UNCHANGED <<applications, candidate_pipeline, schedule_events, interviews,
                   job_offers, test_submissions, tests, notifications, now,
                   raceVars, relayVars>>

FaultNext ==
    \/ \E f \in FaultPoints : InjectFault(f)
    \/ \E a \in FaultInputIds : InitiateWorkflow(a)
    \/ \E a \in FaultInputIds, s \in StageInputs, n \in NotesInputs, auto \in BOOLEAN :
          AdvanceStage(a, s, n, auto)
    \/ \E a \in InputIds, h \in HrIds, at \in ScheduleTimes : ScheduleInterview(a, h, at)

FaultSpec == Init /\ [][FaultNext]_vars

(* ---------------- the slot search over a booked calendar ---------------- *)

\* start times of the interviews the HR may already have: Friday 9:00, 10:00,
\* 11:00, 13:00 and 15:00
BookedTimes == <<4 * MinutesPerDay + 540, 4 * MinutesPerDay + 600,
                 4 * MinutesPerDay + 660, 4 * MinutesPerDay + 780,
                 4 * MinutesPerDay + 900>>

\* what the calendar holds at one of these times
BookedStatus == {"none", "Scheduled", "In Progress", "Completed"}

\* the interviews collection for a choice f of what each time holds; they
\* belong to an application of the same HR that is not otherwise in the model
RECURSIVE BookedInterviews(_, _)
BookedInterviews(f, k) ==
    IF k > Len(BookedTimes) THEN <<>>
    ELSE (IF f[k] = "none" THEN <<>>
          ELSE <<[application_id     |-> "b1",
                  hr_id              |-> JobHr,
                  scheduled_datetime |-> BookedTimes[k],
                  status             |-> f[k]]>>)
         \o BookedInterviews(f, k + 1)

\* the store with the applications alone
EmptyDb == [applications       |-> [a \in AppIds |-> [status |-> "Pending",
                                                      hr_id |-> JobHr,
                                                      user_id |-> UserOf(a)]],
            candidate_pipeline |-> <<>>,
            schedule_events    |-> <<>>,
            interviews         |-> <<>>,
            job_offers         |-> <<>>,
            test_submissions   |-> <<>>,
            notifications      |-> <<>>]

\* the store after initiate_hiring_workflow("a1") and
\* advance_candidate_stage("a1", "Screening") at StartTime
ScreeningDb ==
    LET d1 == initiate_hiring_workflow(EmptyDb, "a1", StartTime, TRUE)[1]
    IN advance_candidate_stage(d1, "a1", "Screening", <<>>, TRUE,
                               StartTime, "None", TRUE)[1]

\* application a1 stands at Screening, two operations were made to bring it
\* there, and the HR's calendar holds any choice of earlier interviews
SlotInit ==
    /\ fault = "none"
    /\ applications = ScreeningDb.applications
    /\ candidate_pipeline = ScreeningDb.candidate_pipeline
    /\ schedule_events = ScreeningDb.schedule_events
    /\ \E f \in [1..Len(BookedTimes) -> BookedStatus] :
          interviews = BookedInterviews(f, 1)
    /\ job_offers = <<>>
    /\ test_submissions = <<>>
    /\ tests = "None"
    /\ notifications = ScreeningDb.notifications
    /\ now = StartTime
    /\ ops = 2
    /\ lastOp = Op("advance", "a1", "Screening", TRUE)
    /\ RaceIdle
    /\ RelayIdle

\* the calls made from there: on to Interview, and from Interview to Offer
SlotStageInputs == {"Interview", "Offer"}

SlotNext ==
    \/ \E a \in AppIds, s \in SlotStageInputs, n \in NotesInputs, auto \in BOOLEAN :
          AdvanceStage(a, s, n, auto)
    \/ Tick

SlotSpec == SlotInit /\ [][SlotNext]_vars

(* ---------------- advance_candidate_stage, one store call at a time ---------------- *)

\* the collections become those of db
StoreBecomes(db) ==
    /\ applications' = db.applications
    /\ candidate_pipeline' = db.candidate_pipeline
    /\ schedule_events' = db.schedule_events
    /\ interviews' = db.interviews
    /\ job_offers' = db.job_offers
    /\ test_submissions' = db.test_submissions
    /\ notifications' = db.notifications

\* caller c enters advance_candidate_stage(a, new_stage, auto_schedule): it
\* reads the pipeline and validates the transition against what it read
AdvRead(c, a, new_stage, auto_schedule) ==
    /\ calls[c].pc = "idle"
    /\ LET i == find_one(candidate_pipeline, a)
           accepted ==
               /\ i # 0
               /\ candidate_pipeline[i].current_stage \in WorkflowStage
               /\ new_stage \in WorkflowStage
               /\ new_stage \in stage_transitions(candidate_pipeline[i].current_stage)
       IN calls' = [calls EXCEPT ![c] =
                      [pc             |-> IF accepted THEN "validated" ELSE "done",
                       application_id |-> a,
                       new_stage      |-> new_stage,
                       auto_schedule  |-> auto_schedule,
                       index          |-> i,
                       current_stage  |-> IF i # 0
                                          THEN candidate_pipeline[i].current_stage
                                          ELSE "",
                       stage_history  |-> IF i # 0
                                          THEN candidate_pipeline[i].stage_history
                                          ELSE <<>>,
                       interview_time |-> None,
                       result         |-> FALSE]]
    /\ UNCHANGED <<applications, candidate_pipeline, schedule_events, interviews,
                   job_offers, test_submissions, tests, notifications, now, ops,
                   lastOp, fault, writes, relayVars>>

\* update_one("candidate_pipeline", ...): the stage, and the history the
\* caller read with its own entry appended, replace what is stored
AdvWritePipeline(c) ==
    /\ calls[c].pc = "validated"
    /\ LET a == calls[c].application_id
           i == find_one(candidate_pipeline, a)
           entry == [stage |-> calls[c].new_stage,
                     notes |-> <<"Advanced from", calls[c].current_stage,
                                 "to", calls[c].new_stage>>]
       IN candidate_pipeline' =
             [candidate_pipeline EXCEPT ![i] =
                [@ EXCEPT !.current_stage = calls[c].new_stage,
                          !.stage_history = Append(calls[c].stage_history, entry),
                          !.next_action   = _get_next_action(calls[c].new_stage)[1]]]
    /\ calls' = [calls EXCEPT ![c].pc = "written"]
    /\ writes' = Append(writes, c)
    /\ UNCHANGED <<applications, schedule_events, interviews, job_offers,
                   test_submissions, tests, notifications, now, ops, lastOp,
                   fault, relayVars>>

\* the rest of the call: the application status, the scheduling of the next
\* step, the stage notification, and the return of True
AdvFinish(c) ==
    /\ calls[c].pc = "written"
    /\ \E ok \in BOOLEAN :
         LET a  == calls[c].application_id
             d2 == SetStatus(Db, a, calls[c].new_stage)
             d3 == IF calls[c].auto_schedule
                   THEN _schedule_next_steps(d2, a, calls[c].new_stage, now, tests, ok)
                   ELSE d2
         IN StoreBecomes(_send_stage_notification(d3, a, calls[c].new_stage))
    /\ calls' = [calls EXCEPT ![c].pc = "done", ![c].result = TRUE]
    /\ UNCHANGED <<tests, now, ops, lastOp, fault, writes, relayVars>>

\* application a1 stands at Screening and the HR's calendar is empty
RaceInit ==
    /\ fault = "none"
    /\ applications = ScreeningDb.applications
    /\ candidate_pipeline = ScreeningDb.candidate_pipeline
    /\ schedule_events = ScreeningDb.schedule_events
    /\ interviews = <<>>
    /\ job_offers = <<>>
    /\ test_submissions = <<>>
    /\ tests = "None"
    /\ notifications = ScreeningDb.notifications
    /\ now = StartTime
    /\ ops = 2
    /\ lastOp = Op("advance", "a1", "Screening", TRUE)
    /\ RaceIdle
    /\ RelayIdle

RaceNext ==
    \/ \E c \in Callers, a \in AppIds, s \in StageInputs, auto \in BOOLEAN :
          AdvRead(c, a, s, auto)
    \/ \E c \in Callers : AdvWritePipeline(c)
    \/ \E c \in Callers : AdvFinish(c)

RaceSpec == RaceInit /\ [][RaceNext]_vars

(* ---------------- auto-scheduling, one store call at a time ---------------- *)

\* two applications of the same HR
BookApps == {"a1", "a2"}

\* the store after initiate_hiring_workflow and
\* advance_candidate_stage(..., "Screening") for both of them
BookDb ==
    LET d0 == [EmptyDb EXCEPT !.applications =
                  [a \in BookApps |-> [status |-> "Pending", hr_id |-> JobHr,
                                       user_id |-> UserOf(a)]]]
        d1 == initiate_hiring_workflow(d0, "a1", StartTime, TRUE)[1]
        d2 == advance_candidate_stage(d1, "a1", "Screening", <<>>, FALSE,
                                      StartTime, "None", TRUE)[1]
        d3 == initiate_hiring_workflow(d2, "a2", StartTime, TRUE)[1]
    IN advance_candidate_stage(d3, "a2", "Screening", <<>>, FALSE,
                               StartTime, "None", TRUE)[1]

\* both applications stand at Screening and the HR's calendar holds any
\* choice of earlier interviews
BookInit ==
    /\ fault = "none"
    /\ applications = BookDb.applications
    /\ candidate_pipeline = BookDb.candidate_pipeline
    /\ schedule_events = BookDb.schedule_events
    /\ \E f \in [1..Len(BookedTimes) -> BookedStatus] :
          interviews = BookedInterviews(f, 1)
    /\ job_offers = <<>>
    /\ test_submissions = <<>>
    /\ tests = "None"
    /\ notifications = BookDb.notifications
    /\ now = StartTime
    /\ ops = 4
    /\ lastOp = Op("advance", "a2", "Screening", TRUE)
    /\ RaceIdle
    /\ RelayIdle

\* after the pipeline write of an advance to Interview with auto_schedule:
\* the application status is written, _schedule_interview looks the
\* application up and _find_next_available_slot scans the HR's calendar
AdvFindSlot(c) ==
    /\ calls[c].pc = "written"
    /\ calls[c].new_stage = "Interview"
    /\ calls[c].auto_schedule
    /\ LET a  == calls[c].application_id
           d2 == SetStatus(Db, a, calls[c].new_stage)
           interview_time ==
               IF Exists(d2, a)
               THEN _find_next_available_slot(interviews, d2.applications[a].hr_id, now)
               ELSE None
       IN /\ StoreBecomes(d2)
          /\ calls' = [calls EXCEPT
                 ![c].interview_time = interview_time,
                 ![c].pc = IF interview_time = None THEN "done" ELSE "slot",
                 ![c].result = (interview_time = None)]
    /\ UNCHANGED <<tests, now, ops, lastOp, fault, writes, relayVars>>

\* interview_service.schedule_interview books the slot that was found, the
\* invitation goes out, and advance_candidate_stage returns True
AdvBook(c) ==
    /\ calls[c].pc = "slot"
    /\ \E ok \in BOOLEAN :
         LET a == calls[c].application_id
         IN StoreBecomes(Notify(schedule_interview(Db, a, applications[a].hr_id,
                                                   calls[c].interview_time),
                                "interview_invitation", a, ok))
    /\ calls' = [calls EXCEPT ![c].pc = "done", ![c].result = TRUE]
    /\ UNCHANGED <<tests, now, ops, lastOp, fault, writes, relayVars>>

BookNext ==
    \/ \E c \in Callers, a \in BookApps : AdvRead(c, a, "Interview", TRUE)
    \/ \E c \in Callers : AdvWritePipeline(c)
    \/ \E c \in Callers : AdvFindSlot(c)
    \/ \E c \in Callers : AdvBook(c)

BookSpec == BookInit /\ [][BookNext]_vars

(* ---------------- the signaling relay ---------------- *)

\* messages the pages send over their sockets during a run
MaxMsgs == 2

\* the application_id of the video call
RelayApps == {"a1"}

\* A socket is "unused" until its page connects; "open" while its handler
\* runs and the page is there; "gone" while its handler still runs but the
\* page has left, so that a send on it throws and its receive ends the loop;
\* "closed" once its handler has returned.
Running(socks, ws) == socks[ws] \in {"open", "gone"}

\* d[k] = v
Put(d, k, v) == [x \in DOMAIN d \cup {k} |-> IF x = k THEN v ELSE d[x]]
\* d.pop(k, None) and del d[k]
Pop(d, k) == [x \in DOMAIN d \ {k} |-> d[x]]
\* the list buffered under k, empty when k is no key
Buffered(d, k) == IF k \in DOMAIN d THEN d[k] ELSE <<>>

\* ws.send of each message of msgs in turn: the page of ws gets them when it
\* is there, and every send throws when it is not
Deliver(rcv, socks, ws, msgs) ==
    IF socks[ws] = "open" THEN [rcv EXCEPT ![ws] = @ \o msgs] ELSE rcv

Throws(socks, ws) == socks[ws] # "open"

FlushIce_latest(rcv, socks, ws, buffer) ==
    IF buffer = <<>> THEN rcv
    ELSE Deliver(rcv, socks, ws, <<<<"ice", buffer[Len(buffer)]>>>>)

\* "for c in buffer: try: ws.send(ice c) except: log"
FlushIce(rcv, socks, ws, buffer) ==
    Deliver(rcv, socks, ws, [i \in 1..Len(buffer) |-> <<"ice", buffer[i]>>])

\* sockets of one page connect in the order of their numbers
Fresh(ws) ==
    /\ sockets[ws] = "unused"
    /\ ws[2] > 1 => sockets[<<ws[1], ws[2] - 1>>] # "unused"

\* handle_hr_connection up to its receive loop; alive tells whether the page
\* is still there while this runs
HrConnect(ws, app_id, alive) ==
    /\ ws[1] = "hr"
    /\ Fresh(ws)
    /\ LET socks  == [sockets EXCEPT ![ws] = IF alive THEN "open" ELSE "gone"]
           notify == app_id \in DOMAIN user_sockets
           r1     == IF notify
                     THEN Deliver(received, socks, user_sockets[app_id],
                                  <<<<"hr_online", 0>>>>)
                     ELSE received
           buffer == Buffered(pending_ice_hr, app_id)
           r2     == FlushIce(r1, socks, ws, buffer)
       IN /\ sockets' = socks
          /\ received' = r2
    /\ hr_sockets' = Put(hr_sockets, app_id, ws)
    /\ UNCHANGED <<user_sockets, pending_offers, pending_answers, pending_ice,
                   pending_ice_hr, relayLog, workflowVars, raceVars>>

\* handle_user_connection up to its receive loop
UserConnect(ws, app_id, alive) ==
    /\ ws[1] = "user"
    /\ Fresh(ws)
    /\ LET socks  == [sockets EXCEPT ![ws] = IF alive THEN "open" ELSE "gone"]
           late   == app_id \in DOMAIN pending_offers
           r1     == IF late
                     THEN Deliver(received, socks, ws,
                                  <<<<"offer", pending_offers[app_id]>>>>)
                     ELSE received
           buffer == Buffered(pending_ice, app_id)
           r2     == FlushIce(r1, socks, ws, buffer)
           notify == app_id \in DOMAIN hr_sockets
           r3     == IF notify
                     THEN Deliver(r2, socks, hr_sockets[app_id],
                                  <<<<"user_online", 0>>>>)
                     ELSE r2
       IN /\ sockets' = socks
          /\ received' = r3
    /\ user_sockets' = Put(user_sockets, app_id, ws)
    /\ pending_offers' = Pop(pending_offers, app_id)
    /\ UNCHANGED <<hr_sockets, pending_answers, pending_ice, pending_ice_hr,
                   relayLog, workflowVars, raceVars>>

\* what the pages send: an offer, an answer, an ICE candidate
HrMessageTypes == {"offer", "ice"}
UserMessageTypes == {"answer", "ice"}

\* the k-th message of a run carries the SDP or candidate number k
NextMessage(type) == <<type, relayLog.n + 1>>

\* one turn of the receive loop of handle_hr_connection on a message
HrReceive(ws, app_id, type) ==
    /\ ws[1] = "hr"
    /\ sockets[ws] = "open"
    /\ relayLog.n < MaxMsgs
    /\ LET m        == NextMessage(type)
           peer     == app_id \in DOMAIN user_sockets
           \* the offer is sent outside any inner try: a throw ends the loop
           fatal    == m[1] = "offer" /\ peer /\ Throws(sockets, user_sockets[app_id])
           forward  == m[1] \in {"offer", "ice"} /\ peer
       IN /\ received' = IF forward
                          THEN Deliver(received, sockets, user_sockets[app_id], <<m>>)
                          ELSE received
          /\ pending_offers' = IF m[1] = "offer" /\ ~peer
                                THEN Put(pending_offers, app_id, m[2])
                                ELSE pending_offers
          /\ pending_ice' = IF m[1] = "ice"
                             THEN Put(pending_ice, app_id,
                                      Append(Buffered(pending_ice, app_id), m[2]))
                             ELSE pending_ice
          \* except ...: log; finally: self.hr_sockets.pop(app_id, None)
          /\ hr_sockets' = IF fatal THEN Pop(hr_sockets, app_id) ELSE hr_sockets
          /\ sockets' = IF fatal THEN [sockets EXCEPT ![ws] = "closed"] ELSE sockets
          /\ relayLog' = [relayLog EXCEPT
                  !.n = @ + 1,
                  !.offers_sent = IF m[1] = "offer" THEN @ + 1 ELSE @,
                  !.user_before_offer =
                      IF m[1] = "offer" /\ relayLog.offers_sent = 0
                      THEN \E u \in SocketIds : u[1] = "user" /\ sockets[u] # "unused"
                      ELSE @,
                  !.ice_sent = IF m[1] = "ice" THEN Append(@, m[2]) ELSE @]
    /\ UNCHANGED <<user_sockets, pending_answers, pending_ice_hr,
                   workflowVars, raceVars>>

\* one turn of the receive loop of handle_user_connection on a message
UserReceive(ws, app_id, type) ==
    /\ ws[1] = "user"
    /\ sockets[ws] = "open"
    /\ relayLog.n < MaxMsgs
    /\ LET m        == NextMessage(type)
           peer     == app_id \in DOMAIN hr_sockets
           \* the answer is sent outside any inner try as well
           fatal    == m[1] = "answer" /\ peer /\ Throws(sockets, hr_sockets[app_id])
           forward  == m[1] \in {"answer", "ice"} /\ peer
       IN /\ received' = IF forward
                          THEN Deliver(received, sockets, hr_sockets[app_id], <<m>>)
                          ELSE received
          /\ pending_answers' = IF m[1] = "answer" /\ ~peer
                                 THEN Put(pending_answers, app_id, m[2])
                                 ELSE pending_answers
          /\ pending_ice_hr' = IF m[1] = "ice"
                                THEN Put(pending_ice_hr, app_id,
                                         Append(Buffered(pending_ice_hr, app_id), m[2]))
                                ELSE pending_ice_hr
          /\ user_sockets' = IF fatal THEN Pop(user_sockets, app_id) ELSE user_sockets
          /\ sockets' = IF fatal THEN [sockets EXCEPT ![ws] = "closed"] ELSE sockets
          /\ relayLog' = [relayLog EXCEPT
                  !.n = @ + 1,
                  !.ice_sent_hr = IF m[1] = "ice" THEN Append(@, m[2]) ELSE @]
    /\ UNCHANGED <<hr_sockets, pending_offers, pending_ice,
                   workflowVars, raceVars>>

\* the page behind ws leaves; the handler has not yet seen it
PageLeaves(ws) ==
    /\ sockets[ws] = "open"
    /\ sockets' = [sockets EXCEPT ![ws] = "gone"]
    /\ UNCHANGED <<hr_sockets, user_sockets, pending_offers, pending_answers,
                   pending_ice, pending_ice_hr, received, relayLog, workflowVars,
                   raceVars>>

Disconnect_peer_left(ws, app_id) ==
    /\ sockets[ws] = "gone"
    /\ sockets' = [sockets EXCEPT ![ws] = "closed"]
    /\ hr_sockets' = IF ws[1] = "hr" THEN Pop(hr_sockets, app_id) ELSE hr_sockets
    /\ user_sockets' = IF ws[1] = "user" THEN Pop(user_sockets, app_id)
                        ELSE user_sockets
    /\ LET peers == IF ws[1] = "hr" THEN user_sockets ELSE hr_sockets
       IN received' = IF app_id \in DOMAIN peers
                       THEN Deliver(received, sockets, peers[app_id],
                                    <<<<"peer_left", 0>>>>)
                       ELSE received
    /\ UNCHANGED <<pending_offers, pending_answers, pending_ice, pending_ice_hr,
                   relayLog, workflowVars, raceVars>>

\* ws.receive() returns nothing or raises: the loop ends and the finally
\* clause pops the registration of the application_id
Disconnect(ws, app_id) ==
    /\ sockets[ws] = "gone"
    /\ sockets' = [sockets EXCEPT ![ws] = "closed"]
    /\ hr_sockets' = IF ws[1] = "hr" THEN Pop(hr_sockets, app_id) ELSE hr_sockets
    /\ user_sockets' = IF ws[1] = "user" THEN Pop(user_sockets, app_id)
                        ELSE user_sockets
    /\ UNCHANGED <<pending_offers, pending_answers, pending_ice, pending_ice_hr,
                   received, relayLog, workflowVars, raceVars>>

RelayNext ==
    \/ \E ws \in SocketIds, a \in RelayApps, alive \in BOOLEAN : HrConnect(ws, a, alive)
    \/ \E ws \in SocketIds, a \in RelayApps, alive \in BOOLEAN : UserConnect(ws, a, alive)
    \/ \E ws \in SocketIds, a \in RelayApps, type \in HrMessageTypes :
          HrReceive(ws, a, type)
    \/ \E ws \in SocketIds, a \in RelayApps, type \in UserMessageTypes :
          UserReceive(ws, a, type)
    \/ \E ws \in SocketIds : PageLeaves(ws)
    \/ \E ws \in SocketIds, a \in RelayApps : Disconnect(ws, a)

RelaySpec == Init /\ [][RelayNext]_vars

(* ---------------- properties ---------------- *)

\* the allowed-transition table as the specification lists it
AllowedEdges ==
    {<<"Applied", "Screening">>, <<"Applied", "Rejected">>,
     <<"Screening", "Test">>, <<"Screening", "Interview">>, <<"Screening", "Rejected">>,
     <<"Test", "Interview">>, <<"Test", "Rejected">>,
     <<"Interview", "Offer">>, <<"Interview", "Rejected">>,
     <<"Offer", "Hired">>, <<"Offer", "Rejected">>}

IsPrefix(p, q) == Len(p) <= Len(q) /\ SubSeq(q, 1, Len(p)) = p

Last(q) == q[Len(q)]

\* the stage the engine reads for application a: that of its first pipeline
StageOf(a) == candidate_pipeline[find_one(candidate_pipeline, a)].current_stage

\* C1: in every reachable state the current_stage of every pipeline is the
\* stage of the last entry of its stage_history.
C1_CurrentStageIsLastHistory ==
    \A i \in 1..Len(candidate_pipeline) :
        candidate_pipeline[i].current_stage =
            Last(candidate_pipeline[i].stage_history).stage

\* C2: an advance_candidate_stage call whose (current_stage, new_stage) is not
\* an edge of the transition table returns false and leaves the pipelines, the
\* application status, the schedule events and the notifications as they were.
C2_InvalidTransitionRejected ==
    [][\A a \in InputIds :
         ( /\ lastOp'.op = "advance"
           /\ lastOp'.application_id = a
           /\ find_one(candidate_pipeline, a) # 0
           /\ <<StageOf(a), lastOp'.arg>> \notin AllowedEdges )
         => ( /\ lastOp'.result = FALSE
              /\ UNCHANGED <<candidate_pipeline, applications, schedule_events,
                             notifications>> )]_vars

C2_Witness ==
    /\ lastOp.op = "advance"
    /\ lastOp.result = FALSE
    /\ lastOp.arg = "Offer"
    /\ find_one(candidate_pipeline, lastOp.application_id) # 0
    /\ StageOf(lastOp.application_id) = "Applied"

\* C3: stage_history is append-only: every step leaves the old history of each
\* pipeline as a prefix of the new one, and a successful advance_candidate_stage
\* makes the history of its pipeline exactly one entry longer.
C3_HistoryAppendOnly ==
    [][ /\ \A i \in 1..Len(candidate_pipeline) :
             IsPrefix(candidate_pipeline[i].stage_history,
                      candidate_pipeline'[i].stage_history)
        /\ (lastOp'.op = "advance" /\ lastOp'.result)
           => LET i == find_one(candidate_pipeline, lastOp'.application_id)
              IN Len(candidate_pipeline'[i].stage_history) =
                    Len(candidate_pipeline[i].stage_history) + 1 ]_vars

\* C4: every change of a pipeline's current_stage follows an edge of the
\* allowed-transition table.
C4_StageChangesFollowEdges ==
    [][\A i \in 1..Len(candidate_pipeline) :
          candidate_pipeline'[i].current_stage # candidate_pipeline[i].current_stage
          => <<candidate_pipeline[i].current_stage,
               candidate_pipeline'[i].current_stage>> \in AllowedEdges]_vars

\* C5: once the current_stage of a pipeline is Hired or Rejected it never
\* changes again.
C5_TerminalStagesStay ==
    [][\A i \in 1..Len(candidate_pipeline) :
          candidate_pipeline[i].current_stage \in {"Hired", "Rejected"}
          => candidate_pipeline'[i].current_stage =
                candidate_pipeline[i].current_stage]_vars

\* C6: initiate_hiring_workflow on an existing application returns true, adds
\* one pipeline for it in stage Applied with the single history entry Applied,
\* adds one Screening event 24 hours after the call and triggers one
\* application-confirmation notification.
C6_InitiateCreatesPipeline ==
    [][\A a \in InputIds :
         ( /\ lastOp'.op = "initiate"
           /\ lastOp'.application_id = a
           /\ a \in DOMAIN applications )
         => ( /\ lastOp'.result = TRUE
              /\ Len(candidate_pipeline') = Len(candidate_pipeline) + 1
              /\ IsPrefix(candidate_pipeline, candidate_pipeline')
              /\ Last(candidate_pipeline').application_id = a
              /\ Last(candidate_pipeline').current_stage = "Applied"
              /\ Len(Last(candidate_pipeline').stage_history) = 1
              /\ Last(candidate_pipeline').stage_history[1].stage = "Applied"
              /\ Len(schedule_events') = Len(schedule_events) + 1
              /\ IsPrefix(schedule_events, schedule_events')
              /\ Last(schedule_events').event_type = "Screening"
              /\ Last(schedule_events').application_id = a
              /\ Last(schedule_events').scheduled_datetime = now + 24 * 60
              /\ Len(notifications') = Len(notifications) + 1
              /\ IsPrefix(notifications, notifications')
              /\ Last(notifications').kind = "application_confirmation"
              /\ Last(notifications').application_id = a )]_vars

C6_Witness ==
    /\ lastOp.op = "initiate"
    /\ lastOp.result = TRUE
    /\ lastOp.application_id \in DOMAIN applications
    /\ Last(candidate_pipeline).current_stage = "Applied"
    /\ Last(schedule_events).event_type = "Screening"
    /\ Last(notifications).kind = "application_confirmation"

\* C7: initiate_hiring_workflow for an id of no application returns false and
\* creates no pipeline, no schedule event and no notification.
C7_InitiateUnknownApplication ==
    [][( /\ lastOp'.op = "initiate"
         /\ lastOp'.application_id \notin DOMAIN applications )
       => ( /\ lastOp'.result = FALSE
            /\ UNCHANGED <<candidate_pipeline, schedule_events, notifications>> )]_vars

C7_Witness ==
    /\ lastOp.op = "initiate"
    /\ lastOp.result = FALSE
    /\ lastOp.application_id \notin DOMAIN applications
    /\ candidate_pipeline # <<>>

\* C8: in every reachable state there is at most one pipeline per application.
C8_OnePipelinePerApplication ==
    \A a \in InputIds :
        Cardinality({i \in 1..Len(candidate_pipeline) :
                        candidate_pipeline[i].application_id = a}) <= 1

\* C9: when a successful advance_candidate_stage(a, s) has returned, the
\* pipeline's current_stage and the application's status both equal s.
C9_StatusMirrorsStage ==
    (lastOp.op = "advance" /\ lastOp.result)
    => ( /\ StageOf(lastOp.application_id) = lastOp.arg
         /\ applications[lastOp.application_id].status = lastOp.arg )

\* the schedule events of type Test of application a
TestEvents(events, a) ==
    {i \in 1..Len(events) : /\ events[i].event_type = "Test"
                            /\ events[i].application_id = a}

\* the same advance call made again right after a successful one returns
\* false and changes nothing
RepeatedAdvanceRejected ==
    \A a \in InputIds :
        ( /\ lastOp.op = "advance" /\ lastOp.result
          /\ lastOp.application_id = a /\ lastOp.arg = "Test"
          /\ lastOp'.op = "advance" /\ lastOp'.application_id = a
          /\ lastOp'.arg = "Test" )
        => ( /\ lastOp'.result = FALSE
             /\ UNCHANGED <<applications, candidate_pipeline, schedule_events,
                            interviews, job_offers, test_submissions,
                            notifications>> )

\* C10 as stated: from Screening, advance_candidate_stage(a, "Test") with
\* auto_schedule returns true and creates a Test event for a; the same call
\* made again at once returns false and changes nothing.
C10_TestAdvanceCreatesEvent ==
    [][ /\ \A a \in InputIds, n \in NotesInputs :
             ( /\ find_one(candidate_pipeline, a) # 0
               /\ StageOf(a) = "Screening"
               /\ AdvanceStage(a, "Test", n, TRUE) )
             => ( /\ lastOp'.result = TRUE
                  /\ Cardinality(TestEvents(schedule_events', a)) =
                        Cardinality(TestEvents(schedule_events, a)) + 1 )
        /\ RepeatedAdvanceRejected ]_vars

\* C10 amended: the Test event is created when the job has an Active test;
\* without one the call still returns true and creates no schedule event.
C10_TestAdvanceCreatesEventIfActiveTest ==
    [][ /\ \A a \in InputIds, n \in NotesInputs :
             ( /\ find_one(candidate_pipeline, a) # 0
               /\ StageOf(a) = "Screening"
               /\ AdvanceStage(a, "Test", n, TRUE) )
             => ( /\ lastOp'.result = TRUE
                  /\ tests = "Active"
                     => ( /\ Len(schedule_events') = Len(schedule_events) + 1
                          /\ IsPrefix(schedule_events, schedule_events')
                          /\ Last(schedule_events').event_type = "Test"
                          /\ Last(schedule_events').application_id = a )
                  /\ tests # "Active" => schedule_events' = schedule_events )
        /\ RepeatedAdvanceRejected ]_vars

C10_Witness ==
    /\ lastOp.op = "advance"
    /\ lastOp.arg = "Test"
    /\ lastOp.result = FALSE
    /\ find_one(candidate_pipeline, lastOp.application_id) # 0
    /\ StageOf(lastOp.application_id) = "Test"
    /\ TestEvents(schedule_events, lastOp.application_id) # {}

(* ---------------- properties under failing collaborators ---------------- *)

\* C11: initiate_hiring_workflow and advance_candidate_stage never raise to
\* their caller: whatever the input (unknown stage string, malformed id,
\* missing application or pipeline) and whichever store or scheduling call
\* fails, no exception leaves the call and a boolean is returned.
C11_NeverRaises ==
    lastOp.op \in {"initiate", "advance"}
    => (~lastOp.raised /\ lastOp.result \in BOOLEAN)

\* the status update failed after the pipeline write: false is returned
C11_Witness ==
    /\ lastOp.op = "advance"
    /\ fault = "status"
    /\ lastOp.result = FALSE
    /\ ~lastOp.raised
    /\ find_one(candidate_pipeline, lastOp.application_id) # 0
    /\ StageOf(lastOp.application_id) = lastOp.arg

\* C12: when the application-confirmation notification fails,
\* initiate_hiring_workflow still returns true and the Applied pipeline and
\* the Screening event it created are stored.
C12_NotificationFailureKeepsPipeline ==
    [][( /\ lastOp'.op = "initiate"
         /\ Len(notifications') = Len(notifications) + 1
         /\ ~Last(notifications').ok )
       => ( /\ lastOp'.result = TRUE
            /\ Len(candidate_pipeline') = Len(candidate_pipeline) + 1
            /\ Last(candidate_pipeline').application_id = lastOp'.application_id
            /\ Last(candidate_pipeline').current_stage = "Applied"
            /\ Len(schedule_events') = Len(schedule_events) + 1
            /\ Last(schedule_events').event_type = "Screening"
            /\ Last(schedule_events').application_id = lastOp'.application_id )]_vars

C12_Witness ==
    /\ lastOp.op = "initiate"
    /\ lastOp.result = TRUE
    /\ notifications # <<>>
    /\ ~Last(notifications).ok
    /\ Last(notifications).kind = "application_confirmation"
    /\ Last(candidate_pipeline).current_stage = "Applied"
    /\ Last(schedule_events).event_type = "Screening"

(* ---------------- properties of the slot search ---------------- *)

\* the Scheduled or In Progress interviews of hr_id that start in [lo, hi]
StartingWithin(hr_id, lo, hi) ==
    {i \in 1..Len(interviews) :
        /\ interviews[i].hr_id = hr_id
        /\ interviews[i].status \in {"Scheduled", "In Progress"}
        /\ interviews[i].scheduled_datetime >= lo
        /\ interviews[i].scheduled_datetime <= hi}

\* C13 as stated: the slot search never returns a start time s for an HR when
\* a Scheduled or In Progress interview of that HR starts in the closed
\* window [s - 60, s + 60].
C13_NoInterviewInClosedWindow ==
    \A h \in HrIds :
        LET s == _find_next_available_slot(interviews, h, now)
        IN s # None => StartingWithin(h, s - 60, s + 60) = {}

\* C13 amended: the window is closed below and open above, [s - 60, s + 60):
\* no Scheduled or In Progress interview of the HR starts from 60 minutes
\* before s up to, but not including, 60 minutes after s.
C13_NoInterviewInHalfOpenWindow ==
    \A h \in HrIds :
        LET s == _find_next_available_slot(interviews, h, now)
        IN s # None => StartingWithin(h, s - 60, s + 59) = {}

\* the search skipped a conflicting slot and booked one that ends exactly
\* when the next interview of the HR starts
C13_Witness ==
    /\ lastOp.op = "advance"
    /\ lastOp.arg = "Interview"
    /\ lastOp.result = TRUE
    /\ Len(interviews) >= 3
    /\ Last(interviews).application_id = "a1"
    /\ Last(interviews).scheduled_datetime > 4 * MinutesPerDay + 540
    /\ \E i \in 1..(Len(interviews) - 1) :
          /\ interviews[i].status = "Scheduled"
          /\ interviews[i].scheduled_datetime = Last(interviews).scheduled_datetime + 60

\* C14: when the search finds no free slot within its horizon, advancing to
\* Interview with auto_schedule returns true and sets current_stage to
\* Interview, and stores no interview and sends no invitation.
C14_NoSlotIsSilent ==
    [][\A a \in AppIds, n \in NotesInputs :
         ( /\ find_one(candidate_pipeline, a) # 0
           /\ StageOf(a) \in {"Screening", "Test"}
           /\ _find_next_available_slot(interviews, applications[a].hr_id, now) = None
           /\ AdvanceStage(a, "Interview", n, TRUE) )
         => ( /\ lastOp'.result = TRUE
              /\ interviews' = interviews
              /\ notifications' = notifications
              /\ candidate_pipeline'[find_one(candidate_pipeline', a)].current_stage
                    = "Interview" )]_vars

C14_Witness ==
    /\ lastOp.op = "advance"
    /\ lastOp.arg = "Interview"
    /\ lastOp.result = TRUE
    /\ StageOf("a1") = "Interview"
    /\ applications["a1"].status = "Interview"
    /\ _find_next_available_slot(interviews, JobHr, now) = None
    /\ \A i \in 1..Len(interviews) : interviews[i].application_id # "a1"
    /\ \A i \in 1..Len(notifications) : notifications[i].kind # "interview_invitation"

(* ---------------- properties of concurrent calls ---------------- *)

\* C15: two advance_candidate_stage calls for one application that read the
\* same prior stage and ask for different targets the table allows from it
\* both return true, and when both have returned the stored current_stage is
\* the target of the call that wrote the pipeline last.
C15_LastWriteWins ==
    \A c \in Callers, d \in Callers :
        ( /\ c # d
          /\ calls[c].pc = "done" /\ calls[d].pc = "done"
          /\ calls[c].application_id = calls[d].application_id
          /\ calls[c].index # 0 /\ calls[d].index # 0
          /\ calls[c].current_stage = calls[d].current_stage
          /\ calls[c].new_stage # calls[d].new_stage
          /\ calls[c].new_stage \in stage_transitions(calls[c].current_stage)
          /\ calls[d].new_stage \in stage_transitions(calls[d].current_stage) )
        => ( /\ calls[c].result /\ calls[d].result
             /\ writes # <<>>
             /\ StageOf(calls[c].application_id) = calls[Last(writes)].new_stage )

(* ---------------- properties of the signaling relay ---------------- *)

HrSockets == {ws \in SocketIds : ws[1] = "hr"}
UserSockets == {ws \in SocketIds : ws[1] = "user"}

\* the messages of one type among those a page got, in order
OfType(msgs, type) == SelectSeq(msgs, LAMBDA m : m[1] = type)

\* how many offers the candidate page got over all its sockets
OffersReceived ==
    Cardinality({p \in UserSockets \X (1..(MaxMsgs + 2)) :
                    /\ p[2] <= Len(received[p[1]])
                    /\ received[p[1]][p[2]][1] = "offer"})

\* socket ws connects in this step
Connects(ws) == sockets[ws] = "unused" /\ sockets'[ws] # "unused"

\* C16: when a candidate socket connected before the HR sent any offer and
\* the HR has sent one offer, the candidate gets that offer exactly once: at
\* every later moment it has either been delivered once and is buffered no
\* more, or it waits in the buffer for the candidate's next connect.
C16_OfferExactlyOnce ==
    \A a \in RelayApps :
        (relayLog.user_before_offer /\ relayLog.offers_sent = 1)
        => \/ OffersReceived = 1 /\ a \notin DOMAIN pending_offers
           \/ OffersReceived = 0 /\ a \in DOMAIN pending_offers

\* C17: every buffered offer, answer and ICE candidate is delivered to the
\* first socket of the receiving role that connects and is then removed from
\* its buffer: after a connect the buffers towards that role are empty.
C17_BufferedDeliveredOnceThenRemoved ==
    [][\A a \in RelayApps, ws \in SocketIds :
         Connects(ws) =>
            IF ws[1] = "hr"
            THEN /\ a \notin DOMAIN pending_answers'
                 /\ Buffered(pending_ice_hr', a) = <<>>
                 /\ sockets'[ws] = "open" =>
                       /\ a \in DOMAIN pending_answers =>
                             OfType(received'[ws], "answer") =
                                <<<<"answer", pending_answers[a]>>>>
                       /\ OfType(received'[ws], "ice") =
                             [i \in 1..Len(Buffered(pending_ice_hr, a)) |->
                                <<"ice", Buffered(pending_ice_hr, a)[i]>>]
            ELSE /\ a \notin DOMAIN pending_offers'
                 /\ Buffered(pending_ice', a) = <<>>
                 /\ sockets'[ws] = "open" =>
                       /\ a \in DOMAIN pending_offers =>
                             OfType(received'[ws], "offer") =
                                <<<<"offer", pending_offers[a]>>>>
                       /\ OfType(received'[ws], "ice") =
                             [i \in 1..Len(Buffered(pending_ice, a)) |->
                                <<"ice", Buffered(pending_ice, a)[i]>>] ]_vars

\* C18: no ICE candidate is dropped: each direction's buffer holds every
\* candidate sent in that direction, in the order sent, and a socket that
\* connects gets all of them in that order, HR to candidate and candidate
\* to HR alike.
C18_BufferedIceDeliveredInOrder ==
    [][\A a \in RelayApps :
         /\ Buffered(pending_ice', a) = relayLog'.ice_sent
         /\ Buffered(pending_ice_hr', a) = relayLog'.ice_sent_hr
         /\ \A ws \in SocketIds :
               (Connects(ws) /\ sockets'[ws] = "open")
               => OfType(received'[ws], "ice") =
                     LET sent == IF ws[1] = "user" THEN relayLog.ice_sent
                                 ELSE relayLog.ice_sent_hr
                     IN [i \in 1..Len(sent) |-> <<"ice", sent[i]>>] ]_vars

\* the HR sent two candidates and left without ever seeing the candidate
\* page; the candidate's first socket then got both, in order
C18_Witness ==
    /\ sockets[<<"hr", 1>>] = "closed"
    /\ received[<<"hr", 1>>] = <<>>
    /\ sockets[<<"hr", 2>>] = "unused"
    /\ sockets[<<"user", 1>>] = "open"
    /\ sockets[<<"user", 2>>] = "unused"
    /\ relayLog.ice_sent = <<1, 2>>
    /\ received[<<"user", 1>>] = <<<<"ice", 1>>, <<"ice", 2>>>>

\* C19: an answer is forwarded to the HR socket at once when the HR is
\* connected; otherwise it is buffered, replacing a buffered answer, and the
\* HR gets it when it next connects.
C19_AnswerForwardedOrBuffered ==
    [][\A a \in RelayApps :
         /\ \A ws \in UserSockets :
               UserReceive(ws, a, "answer")
               => IF a \in DOMAIN hr_sockets
                  THEN sockets[hr_sockets[a]] = "open"
                       => received'[hr_sockets[a]] =
                             Append(received[hr_sockets[a]], NextMessage("answer"))
                  ELSE /\ a \in DOMAIN pending_answers'
                       /\ pending_answers'[a] = NextMessage("answer")[2]
         /\ \A ws \in HrSockets :
               (Connects(ws) /\ sockets'[ws] = "open" /\ a \in DOMAIN pending_answers)
               => OfType(received'[ws], "answer") =
                     <<<<"answer", pending_answers[a]>>>> ]_vars

\* C20: a send that throws because the peer's page is gone never ends the
\* sender's handler: after the step the handler of the sending side still
\* runs and its socket is still registered.
C20_ThrowingSendKeepsSession ==
    [][\A a \in RelayApps :
         /\ \A ws \in HrSockets, type \in HrMessageTypes :
               ( /\ HrReceive(ws, a, type)
                 /\ a \in DOMAIN user_sockets
                 /\ Throws(sockets, user_sockets[a]) )
               => (Running(sockets', ws) /\ hr_sockets' = hr_sockets)
         /\ \A ws \in UserSockets, type \in UserMessageTypes :
               ( /\ UserReceive(ws, a, type)
                 /\ a \in DOMAIN hr_sockets
                 /\ Throws(sockets, hr_sockets[a]) )
               => (Running(sockets', ws) /\ user_sockets' = user_sockets)
         /\ \A ws \in HrSockets :
               (Connects(ws) /\ a \in DOMAIN user_sockets
                  /\ Throws(sockets, user_sockets[a]))
               => (Running(sockets', ws) /\ hr_sockets'[a] = ws)
         /\ \A ws \in UserSockets :
               (Connects(ws) /\ a \in DOMAIN hr_sockets
                  /\ Throws(sockets, hr_sockets[a]))
               => (Running(sockets', ws) /\ user_sockets'[a] = ws) ]_vars

\* the receive loop of the handler of ws ends because the page has left
Disconnects(ws) == sockets[ws] = "gone" /\ sockets'[ws] = "closed"

\* C21: when a socket's receive returns nothing or the socket closes, the
\* registration of that side for the application_id is removed, nothing is
\* sent to anyone because of it, and the registration of the other side and
\* all four buffers stay as they are.
C21_DisconnectFrame ==
    [][ \A ws \in SocketIds :
          Disconnects(ws) =>
             /\ \A a \in RelayApps :
                  /\ ws[1] = "hr" => /\ a \notin DOMAIN hr_sockets'
                                     /\ user_sockets' = user_sockets
                  /\ ws[1] = "user" => /\ a \notin DOMAIN user_sockets'
                                       /\ hr_sockets' = hr_sockets
             /\ received' = received
             /\ pending_offers' = pending_offers
             /\ pending_answers' = pending_answers
             /\ pending_ice' = pending_ice
             /\ pending_ice_hr' = pending_ice_hr ]_vars

\* the HR socket has disconnected while the candidate was registered and
\* ICE was buffered in both directions: its registration is gone, the
\* candidate's is there
C21_Witness ==
    /\ sockets[<<"hr", 1>>] = "closed"
    /\ sockets[<<"hr", 2>>] = "unused"
    /\ relayLog.offers_sent = 0
    /\ "a1" \notin DOMAIN hr_sockets
    /\ "a1" \in DOMAIN user_sockets
    /\ sockets[user_sockets["a1"]] = "open"
    /\ "a1" \in DOMAIN pending_ice
    /\ "a1" \in DOMAIN pending_ice_hr

\* the socket the page of a role connected last, if it has connected at all
Connected(role) ==
    {ws \in SocketIds : /\ ws[1] = role
                        /\ sockets[ws] = "open"
                        /\ \A later \in SocketIds :
                              (later[1] = role /\ later[2] > ws[2])
                              => sockets[later] = "unused"}

\* C22: every ICE message is appended to its direction's buffer, whether or
\* not the peer is connected, and is forwarded at once when the peer is
\* connected; a peer that connects again gets every candidate sent so far in
\* its direction, in the order sent, also those it got before.
C22_IceAppendedForwardedReplayed ==
    [][\A a \in RelayApps :
         /\ \A ws \in HrSockets :
               HrReceive(ws, a, "ice")
               => /\ Buffered(pending_ice', a) =
                        Append(Buffered(pending_ice, a), NextMessage("ice")[2])
                  /\ \A peer \in Connected("user") :
                        received'[peer] = Append(received[peer], NextMessage("ice"))
         /\ \A ws \in UserSockets :
               UserReceive(ws, a, "ice")
               => /\ Buffered(pending_ice_hr', a) =
                        Append(Buffered(pending_ice_hr, a), NextMessage("ice")[2])
                  /\ \A peer \in Connected("hr") :
                        received'[peer] = Append(received[peer], NextMessage("ice"))
         /\ \A ws \in SocketIds :
               (Connects(ws) /\ sockets'[ws] = "open" /\ ws[2] > 1)
               => OfType(received'[ws], "ice") =
                     LET sent == IF ws[1] = "user" THEN relayLog.ice_sent
                                 ELSE relayLog.ice_sent_hr
                     IN [i \in 1..Len(sent) |-> <<"ice", sent[i]>>] ]_vars

(* ---------------- more properties of the slot search ---------------- *)

\* the whole hours from 9:00 to 16:00 of the Mondays to Fridays among the
\* three days from the day of t on
BusinessSlots(t) ==
    {x \in {((t \div MinutesPerDay) + d) * MinutesPerDay + h * 60 :
               d \in 0..2, h \in 9..16} :
        (x \div MinutesPerDay) % 7 \in 0..4}

\* those of them in whose window no Scheduled or In Progress interview of
\* the HR starts
FreeSlots(hr_id, t) ==
    {x \in BusinessSlots(t) : StartingWithin(hr_id, x - 60, x + 59) = {}}

\* C23: a slot the search returns is on a Monday to Friday, on a whole hour
\* from 9:00 to 16:00, within the three days from today on, and is the
\* earliest of the slots without conflict; the search returns none only when
\* each of these slots has a conflict.
C23_SlotIsEarliestFreeBusinessHour ==
    \A h \in HrIds :
        LET s == _find_next_available_slot(interviews, h, now)
        IN IF FreeSlots(h, now) = {}
           THEN s = None
           ELSE /\ s \in FreeSlots(h, now)
                /\ \A x \in FreeSlots(h, now) : s <= x
                /\ (s \div MinutesPerDay) % 7 \in 0..4
                /\ (s % MinutesPerDay) \in {hh * 60 : hh \in 9..16}
                /\ (s \div MinutesPerDay) - (now \div MinutesPerDay) \in 0..2

\* Friday 9:00 and 10:00 were taken, so 9:00, 10:00 and 11:00 had a
\* conflict, and the search booked Friday 12:00 for a1
C23_Witness ==
    /\ lastOp.op = "advance"
    /\ lastOp.arg = "Interview"
    /\ lastOp.result = TRUE
    /\ Len(interviews) >= 3
    /\ Last(interviews).application_id = "a1"
    /\ Last(interviews).scheduled_datetime = 4 * MinutesPerDay + 720
    /\ \E i \in 1..(Len(interviews) - 1) :
          /\ interviews[i].status = "Scheduled"
          /\ interviews[i].scheduled_datetime = 4 * MinutesPerDay + 600

(* ---------------- more properties of the workflow ---------------- *)

\* C24: every successful advance_candidate_stage, whatever the target stage,
\* ends by sending the candidate the notification e-mail of that stage: the
\* last notification sent in the call is the stage notification of the
\* application.
C24_StageNotificationSent ==
    [][\A a \in InputIds, s \in StageInputs, n \in NotesInputs, auto \in BOOLEAN :
         (AdvanceStage(a, s, n, auto) /\ lastOp'.result)
         => /\ Len(notifications') > Len(notifications)
            /\ Last(notifications').kind = "stage_notification"
            /\ Last(notifications').application_id = a ]_vars

\* the stage the last initiate or advance call for application a asked for:
\* the last entry of the history that names a WorkflowStage
LastRequested(a) ==
    LET h   == candidate_pipeline[find_one(candidate_pipeline, a)].stage_history
        idx == {k \in 1..Len(h) : h[k].stage \in WorkflowStage}
    IN h[CHOOSE k \in idx : \A j \in idx : j <= k].stage

\* C25: a pipeline that initiate_hiring_workflow and successful
\* advance_candidate_stage calls have brought to a stage other than Hired and
\* Rejected is not stuck there: an advance to Rejected succeeds, and so does
\* an advance to each other successor of the stage last requested.
C25_NeverStuck ==
    \A a \in AppIds :
        ( /\ find_one(candidate_pipeline, a) # 0
          /\ StageOf(a) \notin {"Hired", "Rejected"} )
        => \A s \in {"Rejected"} \cup stage_transitions(LastRequested(a)) :
              advance_candidate_stage(Db, a, s, <<>>, FALSE, now, tests, TRUE)[2]

\* C26: the slot search never returns a start time before the moment of the
\* search, whatever the time of day is.
C26_SlotNotInPast ==
    \A h \in HrIds :
        LET s == _find_next_available_slot(interviews, h, now)
        IN s # None => s >= now

(* ---------------- more properties under failing collaborators ---------------- *)

\* C27: advance_candidate_stage returns true only if its pipeline write took
\* effect: after a call that returned true for target s the stored history
\* has gained the entry for s and current_stage is s (or what the scheduling
\* step of the same call has made of it), also when update_one reports the
\* update as not applied.
C27_TrueOnlyIfWritten ==
    [][\A a \in FaultInputIds, s \in StageInputs, n \in NotesInputs, auto \in BOOLEAN :
         (AdvanceStage(a, s, n, auto) /\ lastOp'.result)
         => LET i   == find_one(candidate_pipeline, a)
                old == candidate_pipeline[i].stage_history
                new == candidate_pipeline'[i]
            IN /\ i # 0
               /\ Len(new.stage_history) > Len(old)
               /\ new.stage_history[Len(old) + 1].stage = s
               /\ \/ new.current_stage = s
                  \/ auto /\ s = "Interview"
                          /\ new.current_stage = "Interview Scheduled" ]_vars

(* ---------------- more properties of concurrent calls ---------------- *)

\* the calls for application a that have returned true for target stage s
ReturnedTrue(a, s) ==
    {c \in Callers : /\ calls[c].pc = "done"
                     /\ calls[c].result
                     /\ calls[c].application_id = a
                     /\ calls[c].new_stage = s}

\* C30: no successful transition is lost from the audit trail: however the
\* writers of one pipeline interleave, the stored stage_history holds an
\* entry for each advance_candidate_stage call that has returned true.
C30_NoHistoryEntryLost ==
    \A a \in AppIds, s \in WorkflowStage :
        LET i == find_one(candidate_pipeline, a)
            h == candidate_pipeline[i].stage_history
        IN ReturnedTrue(a, s) # {}
           => /\ i # 0
              /\ Cardinality({k \in 1..Len(h) : h[k].stage = s})
                    >= Cardinality(ReturnedTrue(a, s))

\* the interviews that auto-scheduling booked for HR hr_id and that are
\* Scheduled
AutoBooked(hr_id) ==
    {i \in 1..Len(interviews) :
        /\ interviews[i].hr_id = hr_id
        /\ interviews[i].status = "Scheduled"
        /\ interviews[i].application_id \in BookApps}

\* C28: however the advances to Interview with auto_schedule of different
\* applications of one HR interleave, no two interviews booked for the HR
\* start at the same time or within 60 minutes of each other.
C28_NoDoubleBooking ==
    \A h \in HrIds :
        \A i \in AutoBooked(h), j \in AutoBooked(h) :
            interviews[i].application_id # interviews[j].application_id
            => \/ interviews[i].scheduled_datetime
                     >= interviews[j].scheduled_datetime + 60
               \/ interviews[j].scheduled_datetime
                     >= interviews[i].scheduled_datetime + 60

(* ---------------- more properties of the signaling relay ---------------- *)

\* C29: a socket that disconnects removes its own registration only: when a
\* later socket of the same role has taken its place in the mapping and is
\* connected, that socket is still registered after the disconnect.
C29_DisconnectKeepsLaterSocket ==
    [][\A a \in RelayApps, ws \in SocketIds :
         Disconnects(ws)
         => /\ (ws[1] = "hr" /\ a \in DOMAIN hr_sockets /\ hr_sockets[a] # ws
                  /\ sockets[hr_sockets[a]] = "open")
               => (a \in DOMAIN hr_sockets' /\ hr_sockets'[a] = hr_sockets[a])
            /\ (ws[1] = "user" /\ a \in DOMAIN user_sockets /\ user_sockets[a] # ws
                  /\ sockets[user_sockets[a]] = "open")
               => (a \in DOMAIN user_sockets' /\ user_sockets'[a] = user_sockets[a])
       ]_vars

====
